---- MODULE Spec2Model ----
(***************************************************************************)
(* Model of src/app.py: the document ingestion and retrieval pipeline of   *)
(* the Streamlit chat application (text extraction, chunking, indexing in  *)
(* the vector store, retrieval) and the session state machine driving it.  *)
(*                                                                         *)
(* Text is a sequence of character codes (Unicode code points), a file's   *)
(* content a sequence of bytes (0..255), a file name a sequence of codes.  *)
(***************************************************************************)
EXTENDS Integers, Sequences, FiniteSets, TLC

VARIABLES
    text,          \* chunk_text: the argument `text`
    chunks,        \* chunk_text: the returned list `chunks`
    chunked,       \* chunk_text has returned
    file,          \* extract_text_from_file: the argument `file`
    extracted,     \* extract_text_from_file: the returned text, or the exception raised
    extract_done,  \* extract_text_from_file has ended
    uploaded_file, \* per session: the value of the st.file_uploader widget
    file_hash,     \* per session: st.session_state.file_hash
    file_processed,\* per session: st.session_state.file_processed
    collection,    \* per session: st.session_state.collection
    client,        \* the collections of the process-wide chromadb client
    results,       \* what retrieve_context returned to the last question
    lastEvent      \* the last script run: its session, its trigger, its outcome

\* Optional values: None is <<>>, a value v is <<v>>.
None == <<>>
Some(v) == <<v>>

chunkVars == <<text, chunks, chunked>>
extractVars == <<file, extracted, extract_done>>
sessionVars == <<uploaded_file, file_hash, file_processed, collection, client,
                 results, lastEvent>>
vars == <<text, chunks, chunked, file, extracted, extract_done, uploaded_file,
          file_hash, file_processed, collection, client, results, lastEvent>>

Min(a, b) == IF a <= b THEN a ELSE b

(***************************************************************************)
(* Bounds of the model.                                                    *)
(***************************************************************************)
\* longest text handed to chunk_text in ChunkSpec
MaxLen == 1601
\* number of distinct character patterns of the texts of ChunkSpec
NumSeeds == 2
\* the long csv files reach 2 * CsvMargin rows past the sniffer's sample
CsvMargin == 1
\* the non-UTF-8 byte of a long csv lies up to BadSpan bytes to each side of
\* the end of the sniffer's sample
BadSpan == 3
\* the length of the long text the sessions upload (five chunks)
LongLen == 2600

(***************************************************************************)
(* Program constants.                                                      *)
(***************************************************************************)
chunk_size == 800
overlap == 160
\* file.read(2048): the size of the sample handed to the delimiter sniffer
sample_size == 2048
\* retrieve_context(collection, query, k=4)
default_k == 4

(***************************************************************************)
(* Python helpers.                                                         *)
(***************************************************************************)
\* text[a:b] for 0 <= a, 0 <= b (Python slice: clipped to the sequence)
Slice(s, a, b) == SubSeq(s, a + 1, Min(b, Len(s)))

\* str(n) for n >= 0, as character codes
RECURSIVE FormatInt(_)
FormatInt(n) == IF n < 10 THEN <<48 + n>>
                ELSE FormatInt(n \div 10) \o <<48 + (n % 10)>>

\* the outcome of a call: a returned value, or a raised exception
Ok(v) == [raised |-> FALSE, exc |-> "", value |-> v]
Raise(e) == [raised |-> TRUE, exc |-> e, value |-> <<>>]

Indices(s) == [i \in 1..Len(s) |-> i]

\* s.split(c) for a one-character separator c
Split(s, c) ==
    LET seps == SelectSeq(Indices(s), LAMBDA i : s[i] = c)
        n == Len(seps)
    IN [k \in 1..(n + 1) |->
          SubSeq(s, IF k = 1 THEN 1 ELSE seps[k - 1] + 1,
                    IF k = n + 1 THEN Len(s) ELSE seps[k] - 1)]

\* sep.join(ps[lo..hi])
RECURSIVE JoinRange(_, _, _, _)
JoinRange(ps, sep, lo, hi) ==
    IF lo > hi THEN <<>>
    ELSE IF lo = hi THEN ps[lo]
    ELSE LET mid == (lo + hi) \div 2
         IN JoinRange(ps, sep, lo, mid) \o sep \o JoinRange(ps, sep, mid + 1, hi)

\* sep.join(ps)
Join(ps, sep) == JoinRange(ps, sep, 1, Len(ps))

NonEmpty(ps) == SelectSeq(ps, LAMBDA piece : piece # <<>>)

\* s.lower() (ASCII letters)
Lower(s) == [i \in 1..Len(s) |-> IF s[i] \in 65..90 THEN s[i] + 32 ELSE s[i]]

\* the characters str.strip() removes: space, \t, \n, \v, \f, \r and the
\* separators FS, GS, RS, US, NEL, NBSP
IsSpace(c) == c \in {32, 9, 10, 11, 12, 13, 28, 29, 30, 31, 133, 160}

\* the text itself: the test `if text:` in place of `if text.strip():`
strip_Nothing(s) == s

\* s.strip()
strip(s) ==
    IF \A i \in 1..Len(s) : IsSpace(s[i]) THEN <<>>
    ELSE SubSeq(s,
                CHOOSE i \in 1..Len(s) :
                    ~IsSpace(s[i]) /\ \A j \in 1..(i - 1) : IsSpace(s[j]),
                CHOOSE i \in 1..Len(s) :
                    ~IsSpace(s[i]) /\ \A j \in (i + 1)..Len(s) : IsSpace(s[j]))

(***************************************************************************)
(* Byte decoding.                                                          *)
(***************************************************************************)
IsCont(b) == b \in 128..191

\* the length of the UTF-8 sequence a lead byte opens; 0 for a byte that
\* opens none
SeqLen(b) ==
    IF b < 128 THEN 1
    ELSE IF b \in 194..223 THEN 2
    ELSE IF b \in 224..239 THEN 3
    ELSE IF b \in 240..244 THEN 4
    ELSE 0

\* the range of the byte following lead byte b (overlong forms, surrogates
\* and code points above U+10FFFF are rejected)
SecondOk(b, c) ==
    IF b = 224 THEN c \in 160..191
    ELSE IF b = 237 THEN c \in 128..159
    ELSE IF b = 240 THEN c \in 144..191
    ELSE IF b = 244 THEN c \in 128..143
    ELSE IsCont(c)

\* bs.decode("utf-8") does not raise UnicodeDecodeError
Utf8Valid(bs) ==
    \A i \in 1..Len(bs) :
        IF IsCont(bs[i])
        THEN \E d \in 1..3 :
                 /\ i - d >= 1
                 /\ SeqLen(bs[i - d]) > d
                 /\ \A j \in (i - d + 1)..(i - 1) : IsCont(bs[j])
        ELSE /\ SeqLen(bs[i]) > 0
             /\ i + SeqLen(bs[i]) - 1 <= Len(bs)
             /\ \A j \in (i + 1)..(i + SeqLen(bs[i]) - 1) : IsCont(bs[j])
             /\ SeqLen(bs[i]) > 1 => SecondOk(bs[i], bs[i + 1])

\* the code point of the UTF-8 sequence starting at bs[i]
CodePoint(bs, i) ==
    LET n == SeqLen(bs[i])
    IN IF n = 1 THEN bs[i]
       ELSE IF n = 2 THEN (bs[i] - 192) * 64 + (bs[i + 1] - 128)
       ELSE IF n = 3 THEN (bs[i] - 224) * 4096 + (bs[i + 1] - 128) * 64
                           + (bs[i + 2] - 128)
       ELSE (bs[i] - 240) * 262144 + (bs[i + 1] - 128) * 4096
             + (bs[i + 2] - 128) * 64 + (bs[i + 3] - 128)

\* bs.decode("utf-8") of valid bytes
Utf8Decode(bs) ==
    LET leads == SelectSeq(Indices(bs), LAMBDA i : ~IsCont(bs[i]))
    IN [k \in 1..Len(leads) |-> CodePoint(bs, leads[k])]

\* bs.decode("latin-1"): byte b is the code point U+00b; never raises
Latin1Decode(bs) == [i \in 1..Len(bs) |-> bs[i]]

\* bs.decode(encoding)
decode(bs, encoding) ==
    IF encoding = "utf-8"
    THEN IF Utf8Valid(bs) THEN Ok(Utf8Decode(bs)) ELSE Raise("UnicodeDecodeError")
    ELSE Ok(Latin1Decode(bs))

\* the decoding a parser detecting the encoding itself settles on
DecodeAny(bs) == IF Utf8Valid(bs) THEN Utf8Decode(bs) ELSE Latin1Decode(bs)

\* f"chunk_{chunk_id}"
ChunkId(chunk_id) == <<99, 104, 117, 110, 107, 95>> \o FormatInt(chunk_id)

(***************************************************************************)
(* chunk_text                                                              *)
(***************************************************************************)
RECURSIVE ChunkLoop(_, _, _, _)
ChunkLoop(t, start, chunk_id, acc) ==
    IF start < Len(t)
    THEN LET chunk_content == Slice(t, start, start + chunk_size)
         IN ChunkLoop(t, start + chunk_size - overlap, chunk_id + 1,
                      Append(acc, [id          |-> ChunkId(chunk_id),
                                   content     |-> chunk_content,
                                   start_index |-> start,
                                   size        |-> Len(chunk_content)]))
    ELSE acc

\* chunk_text whose loop advances by chunk_size (the overlap forgotten)
RECURSIVE ChunkLoopNoOverlap(_, _, _, _)
ChunkLoopNoOverlap(t, start, chunk_id, acc) ==
    IF start < Len(t)
    THEN LET chunk_content == Slice(t, start, start + chunk_size)
         IN ChunkLoopNoOverlap(t, start + chunk_size, chunk_id + 1,
                      Append(acc, [id          |-> ChunkId(chunk_id),
                                   content     |-> chunk_content,
                                   start_index |-> start,
                                   size        |-> Len(chunk_content)]))
    ELSE acc

chunk_text_NoOverlap(t) == ChunkLoopNoOverlap(t, 0, 0, <<>>)

\* chunk_text whose loop stops before the trailing partial window
RECURSIVE ChunkLoopFullOnly(_, _, _, _)
ChunkLoopFullOnly(t, start, chunk_id, acc) ==
    IF start + chunk_size <= Len(t)
    THEN LET chunk_content == Slice(t, start, start + chunk_size)
         IN ChunkLoopFullOnly(t, start + chunk_size - overlap, chunk_id + 1,
                      Append(acc, [id          |-> ChunkId(chunk_id),
                                   content     |-> chunk_content,
                                   start_index |-> start,
                                   size        |-> Len(chunk_content)]))
    ELSE acc

chunk_text_FullOnly(t) == ChunkLoopFullOnly(t, 0, 0, <<>>)

chunk_text(t) == ChunkLoop(t, 0, 0, <<>>)

(***************************************************************************)
(* The parsing libraries extract_text_from_file calls.  The container      *)
(* formats are abstracted: a pdf is its page texts separated by form       *)
(* feeds, a docx its paragraphs separated by line feeds, an xlsx its rows  *)
(* separated by line feeds with cells separated by tabs.  A DataFrame is   *)
(* its column names and its rows of cells; the column padding of           *)
(* DataFrame.to_string is not modelled.                                    *)
(***************************************************************************)
\* PdfReader(file).pages, each page's extract_text()
PdfReader_pages(bs) ==
    IF bs = <<>> THEN Raise("EmptyFileError")
    ELSE Ok(Split(DecodeAny(bs), 12))

\* Document(file).paragraphs, each paragraph's text
Document_paragraphs(bs) ==
    IF bs = <<>> THEN Raise("BadZipFile")
    ELSE Ok(Split(DecodeAny(bs), 10))

\* BeautifulSoup(markup, "html.parser").get_text(separator): the text nodes
\* (the runs of characters outside <...>) joined by the separator
BeautifulSoup_get_text(bs, separator) ==
    LET markup == DecodeAny(bs)
        InTag(i) == \E j \in 1..i : /\ markup[j] = 60
                                    /\ \A k \in j..(i - 1) : markup[k] # 62
        marked == [i \in 1..Len(markup) |-> IF InTag(i) THEN -1 ELSE markup[i]]
    IN Join(NonEmpty(Split(marked, -1)), separator)

\* the table of the lines of `t`, cells separated by `sep`: blank lines are
\* skipped, the first line names the columns; a row with more cells than
\* columns is a tokenizing error
ParseTable(t, sep) ==
    LET lines == NonEmpty(Split(t, 10))
    IN IF Len(lines) = 0 THEN Raise("EmptyDataError")
       ELSE LET columns == Split(lines[1], sep)
                rows == [k \in 1..(Len(lines) - 1) |-> Split(lines[k + 1], sep)]
            IN IF \E k \in 1..Len(rows) : Len(rows[k]) > Len(columns)
               THEN Raise("ParserError")
               ELSE Ok([columns |-> columns, rows |-> rows])

\* pd.read_excel(file)
read_excel(bs) ==
    IF bs = <<>> THEN Raise("ValueError")
    ELSE ParseTable(DecodeAny(bs), 9)

\* pd.read_csv(file, sep=sep, encoding=encoding), the stream at offset pos
read_csv(bs, pos, sep, encoding) ==
    LET decoded == decode(SubSeq(bs, pos + 1, Len(bs)), encoding)
    IN IF decoded.raised THEN decoded ELSE ParseTable(decoded.value, sep)

\* df.to_string(): the header line, then one line per row led by its index
to_string(df) ==
    IF Len(df.rows) = 0
    THEN <<69, 109, 112, 116, 121, 32, 68, 97, 116, 97, 70, 114, 97, 109, 101,
           10, 67, 111, 108, 117, 109, 110, 115, 58, 32, 91>>
         \o Join(df.columns, <<44, 32>>)
         \o <<93, 10, 73, 110, 100, 101, 120, 58, 32, 91, 93>>
    ELSE LET lines == [k \in 1..(Len(df.rows) + 1) |->
                          IF k = 1 THEN <<32>> \o Join(df.columns, <<32>>)
                          ELSE FormatInt(k - 2) \o <<32>>
                               \o Join(df.rows[k - 1], <<32>>)]
         IN Join(lines, <<10>>)

\* the delimiters csv.Sniffer prefers, in its order: , \t ; space :
preferred == <<44, 9, 59, 32, 58>>

\* csv.Sniffer().sniff(sample).delimiter: the first preferred character
\* that occurs the same number of times (at least once) on at least nine
\* lines out of ten; csv.Error when there is none
sniff(sample) ==
    LET lines == NonEmpty(Split(sample, 10))
        Count(k, c) == Cardinality({i \in 1..Len(lines[k]) : lines[k][i] = c})
        Consistent(c) ==
            LET counts == [k \in 1..Len(lines) |-> Count(k, c)]
            IN \E k \in 1..Len(lines) :
                  /\ counts[k] >= 1
                  /\ 10 * Cardinality({j \in 1..Len(lines) : counts[j] = counts[k]})
                       >= 9 * Len(lines)
        hits == SelectSeq(preferred, Consistent)
    IN IF Len(hits) = 0 THEN Raise("csv.Error") ELSE Ok(hits[1])

(***************************************************************************)
(* extract_text_from_file                                                  *)
(***************************************************************************)
\* file.name.split('.')[-1].lower()
FileExtension(name) ==
    LET pieces == Split(name, 46) IN Lower(pieces[Len(pieces)])

\* the pdf branch: the pages with text, each under its source annotation
\* "\n[Fuente: <name> - Pagina <i+1>]\n"
ExtractPdf(f) ==
    LET pages == PdfReader_pages(f.bytes)
    IN IF pages.raised THEN pages
       ELSE Ok(Join([i \in 1..Len(pages.value) |->
                       IF pages.value[i] # <<>>
                       THEN <<10, 91, 70, 117, 101, 110, 116, 101, 58, 32>>
                            \o f.name
                            \o <<32, 45, 32, 80, 225, 103, 105, 110, 97, 32>>
                            \o FormatInt(i) \o <<93, 10>> \o pages.value[i]
                       ELSE <<>>], <<>>))

\* the docx branch
ExtractDocx(f) ==
    LET paragraphs == Document_paragraphs(f.bytes)
    IN IF paragraphs.raised THEN paragraphs
       ELSE Ok(Join(paragraphs.value, <<10>>))

\* the xlsx branch
ExtractXlsx(f) ==
    LET df == read_excel(f.bytes)
    IN IF df.raised THEN df ELSE Ok(to_string(df.value))

\* the csv branch: the sample is read and decoded before the first try;
\* the stream is rewound (seek(0)) before each read_csv
ExtractCsv(f) ==
    LET sample == decode(Slice(f.bytes, 0, sample_size), "utf-8")
    IN IF sample.raised THEN sample
       ELSE LET dialect == sniff(sample.value)
                separador_detectado == IF dialect.raised THEN 59
                                       ELSE dialect.value
                first == read_csv(f.bytes, 0, separador_detectado, "utf-8")
                df == IF first.raised
                      THEN read_csv(f.bytes, 0, separador_detectado, "latin-1")
                      ELSE first
            IN IF df.raised THEN df ELSE Ok(to_string(df.value))

extract_text_from_file(f) ==
    LET file_extension == FileExtension(f.name)
    IN IF file_extension = <<112, 100, 102>> THEN ExtractPdf(f)
       ELSE IF file_extension = <<100, 111, 99, 120>> THEN ExtractDocx(f)
       ELSE IF file_extension = <<116, 120, 116>> THEN decode(f.bytes, "utf-8")
       ELSE IF file_extension = <<104, 116, 109, 108>>
            THEN Ok(BeautifulSoup_get_text(f.bytes, <<10>>))
       ELSE IF file_extension = <<120, 108, 115, 120>> THEN ExtractXlsx(f)
       ELSE IF file_extension = <<99, 115, 118>> THEN ExtractCsv(f)
       ELSE Ok(<<>>)

(***************************************************************************)
(* hash_file                                                               *)
(***************************************************************************)
\* the sum of w(i) * bs[i] over lo..hi, modulo 65521
RECURSIVE ByteSum(_, _, _, _)
ByteSum(bs, lo, hi, weighted) ==
    IF lo > hi THEN 0
    ELSE IF lo = hi THEN ((IF weighted THEN lo ELSE 1) * bs[lo]) % 65521
    ELSE LET mid == (lo + hi) \div 2
         IN (ByteSum(bs, lo, mid, weighted)
             + ByteSum(bs, mid + 1, hi, weighted)) % 65521

\* hashlib.sha256(bs).hexdigest(), modelled by a checksum of the bytes: their
\* number, their sum and their position-weighted sum
sha256_hexdigest(bs) ==
    <<Len(bs), ByteSum(bs, 1, Len(bs), FALSE), ByteSum(bs, 1, Len(bs), TRUE)>>

\* file.getvalue() is the whole content, whatever the stream's cursor
hash_file(f) == sha256_hexdigest(f.bytes)

(***************************************************************************)
(* The vector store: create_chroma_collection and retrieve_context.  A     *)
(* collection is [name, id, entries]; the Collection object a session      *)
(* keeps is the collection's id.  An entry's embedding is a function of    *)
(* its document and is not carried; the similarity ranking is left open.   *)
(***************************************************************************)
\* the entries collection.add stores for the chunks chs
Entries(chs) ==
    {[id       |-> chs[i].id,
      document |-> chs[i].content,
      metadata |-> [chunk_index |-> i - 1,
                    start_index |-> chs[i].start_index,
                    chunk_size  |-> chs[i].size]] : i \in 1..Len(chs)}

\* the calls of create_chroma_collection that may fail
Failures == {"none", "delete_collection", "create_collection", "encode", "add"}

\* create_chroma_collection reusing the collection already there: nothing
\* is deleted, the new entries are added to it
create_chroma_collection_KeepOld(cl, chs, new_id, fail) ==
    LET old == UNION {c.entries : c \in {c \in cl : c.name = "doc_rag"}}
        others == {c \in cl : c.name # "doc_rag"}
    IN IF fail = "create_collection"
       THEN [client |-> cl, raised |-> TRUE, collection |-> None]
       ELSE IF fail \in {"encode", "add"}
       THEN [client |-> others \cup {[name |-> "doc_rag", id |-> new_id,
                                      entries |-> old]},
             raised |-> TRUE, collection |-> None]
       ELSE [client |-> others \cup {[name |-> "doc_rag", id |-> new_id,
                                      entries |-> old \cup Entries(chs)]},
             raised |-> FALSE, collection |-> Some(new_id)]

\* create_chroma_collection(chunks) against the collections cl, the new
\* collection getting the id new_id, the call `fail` raising: the store
\* left behind, whether the function raised, the Collection returned.
\* An exception of delete_collection is swallowed; create_collection
\* raises on its own when the name is still taken.
create_chroma_collection(cl, chs, new_id, fail) ==
    LET deleted == IF fail = "delete_collection" THEN cl
                   ELSE {c \in cl : c.name # "doc_rag"}
    IN IF fail = "create_collection" \/ \E c \in deleted : c.name = "doc_rag"
       THEN [client |-> deleted, raised |-> TRUE, collection |-> None]
       ELSE IF fail \in {"encode", "add"}
       THEN [client |-> deleted \cup {[name |-> "doc_rag", id |-> new_id,
                                       entries |-> {}]},
             raised |-> TRUE, collection |-> None]
       ELSE [client |-> deleted \cup {[name |-> "doc_rag", id |-> new_id,
                                       entries |-> Entries(chs)]},
             raised |-> FALSE, collection |-> Some(new_id)]

\* retrieve_context(collection, query, k): the results collection.query may
\* return, each the k nearest entries (all of them when there are fewer);
\* the query raises when the collection is no longer in the store
retrieve_context(cl, coll, query, k) ==
    IF \E c \in cl : c.id = coll
    THEN LET c == CHOOSE c \in cl : c.id = coll
         IN {Ok(r) : r \in {r \in SUBSET c.entries :
                              Cardinality(r) = Min(k, Cardinality(c.entries))}}
    ELSE {Raise("NotFoundError")}

(***************************************************************************)
(* The sessions.  Every action is one run of the script for one session:   *)
(* the change detection, then the section whose button was clicked.        *)
(***************************************************************************)
Sessions == {"S1", "S2"}

EventStart == [session |-> "", kind |-> "start", outcome |-> "", stage |-> "",
               count |-> 0]

Event(s, kind, outcome, stage, count) ==
    [session |-> s, kind |-> kind, outcome |-> outcome, stage |-> stage,
     count |-> count]

\* st.file_uploader(..., type=[...]): the extensions the widget accepts
AcceptedTypes ==
    { <<112, 100, 102>>, <<100, 111, 99, 120>>, <<116, 120, 116>>,
      <<104, 116, 109, 108>>, <<99, 115, 118>>, <<120, 108, 115, 120>> }

\* the files the users have at hand
SessionFiles ==
    { [name |-> <<104, 46, 116, 120, 116>>,                  \* h.txt: "hello world"
       bytes |-> <<104, 101, 108, 108, 111, 32, 119, 111, 114, 108, 100>>],
      [name |-> <<72, 50, 46, 84, 88, 84>>,                  \* H2.TXT: the same bytes
       bytes |-> <<104, 101, 108, 108, 111, 32, 119, 111, 114, 108, 100>>],
      [name |-> <<119, 46, 116, 120, 116>>,                  \* w.txt: " \n\t"
       bytes |-> <<32, 10, 9>>],
      [name |-> <<120, 46, 116, 120, 116>>,                  \* x.txt: "cafe" in Latin-1
       bytes |-> <<99, 97, 102, 233>>],
      [name |-> <<110, 111, 116, 101, 115, 46, 109, 100>>,   \* notes.md
       bytes |-> <<104, 101, 108, 108, 111, 32, 119, 111, 114, 108, 100>>],
      [name |-> <<108, 46, 116, 120, 116>>,                  \* l.txt: LongLen digits
       bytes |-> [i \in 1..LongLen |-> 48 + (i % 10)]] }

\* the files the user of session s picks from: the second user has the two
\* documents h.txt and l.txt only
FilesOf(s) ==
    IF s = "S1" THEN SessionFiles
    ELSE {f \in SessionFiles : f.name \in {<<104, 46, 116, 120, 116>>,
                                           <<108, 46, 116, 120, 116>>}}

\* the questions the users type (the empty one: the field left empty)
Questions == {<<>>, <<113, 117, 101, 63>>}

HashOf == [f \in SessionFiles |-> hash_file(f)]
ExtractOf == [f \in SessionFiles |-> extract_text_from_file(f)]

SessionStart ==
    /\ uploaded_file = [s \in Sessions |-> None]
    /\ file_hash = [s \in Sessions |-> None]
    /\ file_processed = [s \in Sessions |-> FALSE]
    /\ collection = [s \in Sessions |-> None]
    /\ client = {}
    /\ results = {}
    /\ lastEvent = EventStart

Init ==
    /\ SessionStart
    /\ text = <<>>
    /\ chunks = <<>>
    /\ chunked = FALSE
    /\ file = [name |-> <<>>, bytes |-> <<>>]
    /\ extracted = Ok(<<>>)
    /\ extract_done = FALSE

\* the session state of s
State(s) == [file_hash      |-> file_hash[s],
             file_processed |-> file_processed[s],
             collection     |-> collection[s]]

\* the change detection that forgets to drop the collection
ChangeDetection_KeepCollection(st, current_hash) ==
    IF st.file_hash # Some(current_hash)
    THEN [st EXCEPT !.file_hash = Some(current_hash)]
    ELSE st

\* the change detection of a run whose uploaded file has digest current_hash
ChangeDetection(st, current_hash) ==
    IF st.file_hash # Some(current_hash)
    THEN [file_hash |-> Some(current_hash), file_processed |-> FALSE,
          collection |-> None]
    ELSE st

\* the session state of s once the change detection of a run has passed
Detected(s) ==
    IF uploaded_file[s] # None
    THEN ChangeDetection(State(s), HashOf[uploaded_file[s][1]])
    ELSE State(s)

\* the session state of s becomes st
SetState(s, st) ==
    /\ file_hash' = [file_hash EXCEPT ![s] = st.file_hash]
    /\ file_processed' = [file_processed EXCEPT ![s] = st.file_processed]
    /\ collection' = [collection EXCEPT ![s] = st.collection]

\* the id of a new collection: one no collection and no session holds
FreshId ==
    LET used == {c.id : c \in client}
                \cup {collection[s][1] : s \in {x \in Sessions : collection[x] # None}}
    IN CHOOSE n \in 1..(Cardinality(Sessions) + 2) :
          /\ n \notin used
          /\ \A m \in 1..(n - 1) : m \in used

\* the user of session s picks the file f in the uploader
Upload(s, f) ==
    /\ FileExtension(f.name) \in AcceptedTypes
    /\ uploaded_file' = [uploaded_file EXCEPT ![s] = Some(f)]
    /\ LET st == ChangeDetection(State(s), HashOf[f])
       IN /\ SetState(s, st)
          /\ lastEvent' = Event(s, "upload",
                                IF st = State(s) THEN "same" ELSE "changed", "", 0)
    /\ results' = {}
    /\ UNCHANGED <<client, chunkVars, extractVars>>

\* the user of session s removes the file from the uploader
RemoveFile(s) ==
    /\ uploaded_file[s] # None
    /\ uploaded_file' = [uploaded_file EXCEPT ![s] = None]
    /\ lastEvent' = Event(s, "remove", "removed", "", 0)
    /\ results' = {}
    /\ UNCHANGED <<file_hash, file_processed, collection, client, chunkVars,
                   extractVars>>

\* the user of session s clicks "Procesar e Indexar Contenido"
Process(s) ==
    /\ uploaded_file[s] # None
    /\ ~file_processed[s]
    /\ LET st == Detected(s)
           extraction == ExtractOf[uploaded_file[s][1]]
       IN /\ ~st.file_processed
          /\ IF extraction.raised
             THEN /\ SetState(s, st)
                  /\ lastEvent' = Event(s, "process", "exception", "extract", 0)
                  /\ UNCHANGED client
             ELSE IF strip(extraction.value) = <<>>
             THEN /\ SetState(s, st)
                  /\ lastEvent' = Event(s, "process", "blank", "", 0)
                  /\ UNCHANGED client
             ELSE \E fail \in Failures :
                    LET chs == chunk_text(extraction.value)
                        made == create_chroma_collection(client, chs, FreshId, fail)
                    IN /\ client' = made.client
                       /\ IF made.raised
                          THEN /\ SetState(s, st)
                               /\ lastEvent' = Event(s, "process", "exception",
                                                     "index", 0)
                          ELSE /\ SetState(s, [st EXCEPT
                                                 !.collection = made.collection,
                                                 !.file_processed = TRUE])
                               /\ lastEvent' = Event(s, "process", "success", "",
                                                     Len(chs))
    /\ results' = {}
    /\ UNCHANGED <<uploaded_file, chunkVars, extractVars>>

\* the user of session s types the question q and clicks "Preguntar";
\* ask_gemini answers or raises
Ask(s, q) ==
    /\ file_processed[s]
    /\ collection[s] # None
    /\ LET st == Detected(s)
       IN /\ st.file_processed
          /\ st.collection # None
          /\ SetState(s, st)
          /\ IF q = <<>>
             THEN /\ results' = {}
                  /\ lastEvent' = Event(s, "ask", "no question", "", 0)
             ELSE \E r \in retrieve_context(client, st.collection[1], q, default_k) :
                    IF r.raised
                    THEN /\ results' = {}
                         /\ lastEvent' = Event(s, "ask", "exception", "retrieve", 0)
                    ELSE /\ results' = r.value
                         /\ \E answered \in BOOLEAN :
                              lastEvent' =
                                  IF answered
                                  THEN Event(s, "ask", "answered", "",
                                             Cardinality(r.value))
                                  ELSE Event(s, "ask", "exception", "generate",
                                             Cardinality(r.value))
    /\ UNCHANGED <<uploaded_file, client, chunkVars, extractVars>>

Next ==
    \E s \in Sessions :
        \/ \E f \in FilesOf(s) : Upload(s, f)
        \/ RemoveFile(s)
        \/ Process(s)
        \/ \E q \in Questions : Ask(s, q)

Spec == Init /\ [][Next]_vars

\* the runs of the script for the first session alone
SoloNext ==
    \/ \E f \in FilesOf("S1") : Upload("S1", f)
    \/ RemoveFile("S1")
    \/ Process("S1")
    \/ \E q \in Questions : Ask("S1", q)

SoloSpec == Init /\ [][SoloNext]_vars

(***************************************************************************)
(* ExtractSpec: extract_text_from_file applied to a family of files.       *)
(***************************************************************************)
FileNames ==
    { <<97, 46, 116, 120, 116>>,                  \* a.txt
      <<78, 79, 84, 69, 83, 46, 84, 88, 84>>,     \* NOTES.TXT
      <<110, 111, 116, 101, 115, 46, 109, 100>>,  \* notes.md
      <<82, 69, 65, 68, 77, 69>>,                 \* README
      <<100, 46, 99, 115, 118>>,                  \* d.csv
      <<68, 97, 116, 97, 46, 67, 83, 86>>,        \* Data.CSV
      <<114, 46, 112, 100, 102>>,                 \* r.pdf
      <<119, 46, 100, 111, 99, 120>>,             \* w.docx
      <<112, 46, 104, 116, 109, 108>>,            \* p.html
      <<115, 46, 120, 108, 115, 120>>,            \* s.xlsx
      <<120, 46, 116, 97, 114, 46, 103, 122>> }   \* x.tar.gz

SmallContents ==
    { <<>>,
      <<32, 10, 9>>,                                                \* " \n\t"
      <<104, 101, 108, 108, 111, 32, 119, 111, 114, 108, 100>>,     \* hello world
      <<97, 44, 98, 10, 49, 44, 50, 10, 51, 44, 52, 10>>,           \* a,b / 1,2 / 3,4
      <<97, 59, 98, 10, 49, 59, 50, 10>>,                           \* a;b / 1;2
      <<110, 97, 109, 101, 10, 97, 110, 97, 10, 101, 118, 97, 10>>, \* name / ana / eva
      <<99, 97, 102, 195, 169>>,                                    \* cafe, UTF-8
      <<99, 97, 102, 233>>,                                         \* cafe, Latin-1
      <<97, 59, 98, 10, 49, 59, 99, 97, 102, 233, 10>>,             \* a;b / 1;cafe, Latin-1
      <<60, 112, 62, 104, 105, 60, 47, 112, 62, 60, 98, 62, 121, 111, 60, 47, 98, 62>>, \* <p>hi</p><b>yo</b>
      <<60, 98, 114, 47, 62>>,                                      \* <br/>
      <<111, 110, 101, 12, 12, 116, 119, 111>>,                     \* one FF FF two
      <<97, 9, 98, 10, 49, 9, 50, 10>> }                            \* a TAB b / 1 TAB 2

\* a csv of two columns in rows of 8 bytes "aaa;bbb\n", reaching
\* 2 * CsvMargin rows past the sample, with the Latin-1 byte 0xE9 at
\* offset bad (1-based; none when bad = 0)
LongCsv(bad) ==
    [i \in 1..(sample_size + 16 * CsvMargin) |->
        IF i = bad THEN 233
        ELSE IF i % 8 = 0 THEN 10
        ELSE IF i % 8 = 4 THEN 59
        ELSE 97 + (i % 8)]

\* the offsets of the non-UTF-8 byte the long csv files carry: none, the
\* first byte, and up to BadSpan bytes to each side of the end of the sample
BadOffsets == {0, 1} \cup ((sample_size - BadSpan)..(sample_size + BadSpan)
                            \ {sample_size})

ExtractFiles ==
    {[name |-> n, bytes |-> b] : n \in FileNames, b \in SmallContents}
    \cup {[name |-> <<100, 46, 99, 115, 118>>, bytes |-> LongCsv(bad)] :
            bad \in BadOffsets}

ExtractInit ==
    /\ file \in ExtractFiles
    /\ extracted = Ok(<<>>)
    /\ extract_done = FALSE
    /\ text = <<>>
    /\ chunks = <<>>
    /\ chunked = FALSE
    /\ SessionStart

ExtractText ==
    /\ ~extract_done
    /\ extracted' = extract_text_from_file(file)
    /\ extract_done' = TRUE
    /\ UNCHANGED <<file, chunkVars, sessionVars>>

ExtractNext == ExtractText

ExtractSpec == ExtractInit /\ [][ExtractNext]_vars

(***************************************************************************)
(* ChunkSpec: chunk_text applied to texts of every length 0..MaxLen.       *)
(***************************************************************************)
\* the i-th character (1-based) of the text of pattern `seed`
PatternChar(seed, i) == 32 + ((i * (seed + 6)) % 95)

PatternText(seed, n) == [i \in 1..n |-> PatternChar(seed, i)]

ChunkInit ==
    /\ \E n \in 0..MaxLen : \E seed \in 1..NumSeeds : text = PatternText(seed, n)
    /\ chunks = <<>>
    /\ chunked = FALSE
    /\ file = [name |-> <<>>, bytes |-> <<>>]
    /\ extracted = Ok(<<>>)
    /\ extract_done = FALSE
    /\ SessionStart

ChunkText ==
    /\ ~chunked
    /\ chunks' = chunk_text(text)
    /\ chunked' = TRUE
    /\ UNCHANGED <<text, extractVars, sessionVars>>

ChunkNext == ChunkText

ChunkSpec == ChunkInit /\ [][ChunkNext]_vars

(***************************************************************************)
(* Claims about chunk_text (checked under ChunkSpec).                      *)
(***************************************************************************)
\* the last window of `cs` ends at the end of the text `t`
ReachesEnd(cs, t) ==
    /\ Len(cs) > 0
    /\ cs[Len(cs)].start_index + cs[Len(cs)].size = Len(t)

\* C1 as stated: chunk_text returns 0 chunks for a text of length 0, 1 chunk
\* for length 800, 2 chunks for length 801 and 2 chunks for length 1600, the
\* last one reaching the end of the text.
C1_Original ==
    chunked =>
        /\ (Len(text) = 0 => Len(chunks) = 0)
        /\ (Len(text) = 800 => Len(chunks) = 1)
        /\ (Len(text) = 801 => Len(chunks) = 2)
        /\ (Len(text) = 1600 => Len(chunks) = 2 /\ ReachesEnd(chunks, text))

\* C1 amended: chunk_text returns 0 chunks for a text of length 0, 2 chunks
\* for length 800 (windows at 0 and 640), 2 chunks for length 801 and 3
\* chunks for length 1600, the last one reaching the end of the text.
C1_ChunkCounts ==
    chunked =>
        /\ (Len(text) = 0 => Len(chunks) = 0)
        /\ (Len(text) = 800 => Len(chunks) = 2)
        /\ (Len(text) = 801 => Len(chunks) = 2)
        /\ (Len(text) = 1600 => Len(chunks) = 3 /\ ReachesEnd(chunks, text))

C1_Witness ==
    /\ chunked
    /\ Len(text) = 1600
    /\ Len(chunks) = 3
    /\ chunks[3].start_index = 1280

\* C2: the chunks returned by chunk_text cover the text: every offset p in
\* [0, len(T)) lies in the window [start_index, start_index+size) of some
\* chunk, and each chunk's content is T[start_index : start_index+size].
C2_Coverage ==
    chunked =>
        /\ \A p \in 0..(Len(text) - 1) :
              \E i \in 1..Len(chunks) :
                  /\ chunks[i].start_index <= p
                  /\ p < chunks[i].start_index + chunks[i].size
        /\ \A i \in 1..Len(chunks) :
              chunks[i].content =
                  Slice(text, chunks[i].start_index,
                        chunks[i].start_index + chunks[i].size)

C2_Witness ==
    /\ chunked
    /\ Len(text) = 1500
    /\ Len(chunks) = 3
    /\ chunks[3].size = 220

\* the number of characters the windows of chunks i and i+1 have in common
Shared(cs, i) == cs[i].start_index + cs[i].size - cs[i + 1].start_index

\* C9 as stated: chunks come in strictly increasing start_index order, the
\* i-th (0-based) starting at i*640 with id chunk_i; every chunk except
\* possibly the last has size exactly 800; two consecutive chunks share
\* exactly 160 characters, the final chunk possibly fewer.
C9_Original ==
    chunked =>
        /\ \A i \in 1..Len(chunks) :
              /\ chunks[i].start_index = (i - 1) * (chunk_size - overlap)
              /\ chunks[i].id = <<99, 104, 117, 110, 107, 95>> \o FormatInt(i - 1)
              /\ (i < Len(chunks) => chunks[i].size = chunk_size)
        /\ \A i \in 1..(Len(chunks) - 1) :
              /\ chunks[i].start_index < chunks[i + 1].start_index
              /\ IF i + 1 < Len(chunks)
                 THEN /\ Shared(chunks, i) = overlap
                      /\ SubSeq(chunks[i].content, chunks[i].size - overlap + 1,
                                chunks[i].size)
                           = SubSeq(chunks[i + 1].content, 1, overlap)
                 ELSE Shared(chunks, i) <= overlap

(***************************************************************************)
(* Claims about the sessions and the vector store (checked under Spec).    *)
(***************************************************************************)
\* the step taken is a run of kind `kind` for session s
Ran(s, kind) == lastEvent'.session = s /\ lastEvent'.kind = kind

\* the last run was one of kind `kind` for session s
LastRun(s, kind) == lastEvent.session = s /\ lastEvent.kind = kind

\* the chunks of the text of file f (f's extraction returns)
ChunksOfFile(f) == chunk_text(ExtractOf[f].value)

\* the files whose text can be indexed
Indexable == {f \in SessionFiles : ~ExtractOf[f].raised
                                   /\ \E i \in 1..Len(ExtractOf[f].value) :
                                         ~IsSpace(ExtractOf[f].value[i])}

\* the set es holds exactly one entry per chunk of chs, with its metadata
OneEntryPerChunk(es, chs) ==
    /\ Cardinality(es) = Len(chs)
    /\ \A i \in 1..Len(chs) :
          \E e \in es : /\ e.id = chs[i].id
                        /\ e.document = chs[i].content
                        /\ e.metadata = [chunk_index |-> i - 1,
                                         start_index |-> chs[i].start_index,
                                         chunk_size  |-> chs[i].size]

\* no entry of es holds a chunk of a file whose text differs from f's
NothingForeign(es, f) ==
    \A g \in Indexable :
        ExtractOf[g].value # ExtractOf[f].value =>
            \A e \in es : \A i \in 1..Len(ChunksOfFile(g)) :
                e.document # ChunksOfFile(g)[i].content

\* C3: once create_chroma_collection has returned for the chunks of a
\* document, the store holds a single collection doc_rag, the one returned,
\* with exactly one entry per chunk of that document and no entry of any
\* other document, whether or not a collection existed before; and what
\* retrieve_context returns is made of entries of the asking session's
\* recorded document only.
C3_ReindexReplaces ==
    /\ Cardinality({c \in client : c.name = "doc_rag"}) <= 1
    /\ \A s \in Sessions :
          (LastRun(s, "process") /\ lastEvent.outcome = "success") =>
              /\ collection[s] # None
              /\ \E c \in client :
                    /\ client = {c}
                    /\ c.id = collection[s][1]
                    /\ OneEntryPerChunk(c.entries, ChunksOfFile(uploaded_file[s][1]))
                    /\ NothingForeign(c.entries, uploaded_file[s][1])
    /\ \A s \in Sessions :
          (LastRun(s, "ask") /\ results # {}) =>
              \E f \in Indexable :
                  /\ file_hash[s] = Some(HashOf[f])
                  /\ results \subseteq Entries(ChunksOfFile(f))
                  /\ NothingForeign(results, f)

\* the first session has just indexed a document while the second session
\* still holds the collection of another document, indexed before
C3_Witness ==
    /\ LastRun("S1", "process")
    /\ lastEvent.outcome = "success"
    /\ file_processed["S2"]
    /\ file_hash["S1"] # file_hash["S2"]
    /\ \E c \in client : c.id = collection["S1"][1] /\ c.entries # {}

\* C4: an upload whose digest equals the stored file_hash leaves
\* file_processed and collection unchanged and re-indexes nothing; an upload
\* whose digest differs sets file_hash to the new digest, file_processed to
\* False and collection to None (the process button is offered again), the
\* store untouched until that process.
C4_ChangeDetection ==
    [][\A s \in Sessions :
         Ran(s, "upload") =>
            /\ uploaded_file'[s] # None
            /\ client' = client
            /\ IF file_hash[s] = Some(HashOf[uploaded_file'[s][1]])
               THEN /\ file_hash'[s] = file_hash[s]
                    /\ file_processed'[s] = file_processed[s]
                    /\ collection'[s] = collection[s]
               ELSE /\ file_hash'[s] = Some(HashOf[uploaded_file'[s][1]])
                    /\ file_processed'[s] = FALSE
                    /\ collection'[s] = None]_vars

\* a processed file uploaded again (the same bytes): still processed
C4_Witness ==
    /\ LastRun("S1", "upload")
    /\ lastEvent.outcome = "same"
    /\ file_processed["S1"]
    /\ collection["S1"] # None

\* C5 as stated: when create_chroma_collection fails after a previous
\* collection existed, the previous collection is still intact in the store
\* (and the run reports the failure); otherwise the new collection fully
\* replaces the old one.
C5_Original ==
    [][\A s \in Sessions :
         Ran(s, "process") =>
            /\ (lastEvent'.outcome = "exception" /\ lastEvent'.stage = "index"
                /\ client # {}) => client' = client
            /\ lastEvent'.outcome = "success" =>
                  \E c \in client' :
                      /\ client' = {c}
                      /\ OneEntryPerChunk(c.entries,
                                          ChunksOfFile(uploaded_file[s][1]))]_vars

\* C6 as stated: a run of one session never deletes, empties or changes
\* the collection another session holds in its session state.
C6_Original ==
    [][\A s \in Sessions :
         (lastEvent'.session # s /\ collection[s] # None) =>
            \A c \in client : c.id = collection[s][1] => c \in client']_vars

\* the text t is empty or made of whitespace only
IsBlank(t) == \A i \in 1..Len(t) : IsSpace(t[i])

\* C8: extract_text_from_file returns the empty text, without raising, for
\* a file whose extension is none of pdf, docx, txt, html, csv, xlsx; and a
\* process run whose extraction yields an empty or whitespace-only text
\* reports the failure and indexes nothing: the store is untouched,
\* file_processed stays False and collection stays None.
C8_BlankNotIndexed ==
    /\ \A f \in ExtractFiles \cup SessionFiles :
          FileExtension(f.name) \notin AcceptedTypes =>
              extract_text_from_file(f) = Ok(<<>>)
    /\ [][\A s \in Sessions :
             (/\ Ran(s, "process")
              /\ ~ExtractOf[uploaded_file[s][1]].raised
              /\ IsBlank(ExtractOf[uploaded_file[s][1]].value)) =>
                 /\ lastEvent'.outcome = "blank"
                 /\ client' = client
                 /\ file_processed'[s] = FALSE
                 /\ collection'[s] = None]_vars

\* the whitespace-only file has been processed; a collection of another
\* session is in the store
C8_Witness ==
    /\ LastRun("S1", "process")
    /\ lastEvent.outcome = "blank"
    /\ IsBlank(ExtractOf[uploaded_file["S1"][1]].value)
    /\ client # {}

\* C10 as stated: in every reachable state file_processed is True iff
\* collection is not None; when both hold, the collection is the live
\* collection of the store, built from the bytes whose digest is file_hash;
\* and retrieve_context is only ever invoked with such a collection.
C10_Original ==
    \A s \in Sessions :
        /\ file_processed[s] <=> collection[s] # None
        /\ (LastRun(s, "ask") /\ lastEvent.outcome # "no question") =>
              /\ collection[s] # None
              /\ lastEvent.stage # "retrieve"
              /\ \E c \in client :
                    /\ c.id = collection[s][1]
                    /\ \E f \in Indexable :
                          /\ file_hash[s] = Some(HashOf[f])
                          /\ c.entries = Entries(ChunksOfFile(f))

(***************************************************************************)
(* Claims about extract_text_from_file (checked under ExtractSpec).        *)
(***************************************************************************)
\* C7 as stated: for a .csv file whose bytes are not valid UTF-8, wherever
\* the invalid bytes lie, extract_text_from_file does not raise and returns
\* the table read as Latin-1 with the detected or the fallback delimiter.
C7_Original ==
    (/\ extract_done
     /\ FileExtension(file.name) = <<99, 115, 118>>
     /\ ~Utf8Valid(file.bytes)) =>
        /\ ~extracted.raised
        /\ \E i \in 1..Len(preferred) :
              LET df == read_csv(file.bytes, 0, preferred[i], "latin-1")
              IN ~df.raised /\ extracted.value = to_string(df.value)

\* the part of C7 that holds: when the first sample_size bytes are valid
\* UTF-8 and later bytes are not, the Latin-1 reading is returned
C7_BeyondSample ==
    (/\ extract_done
     /\ FileExtension(file.name) = <<99, 115, 118>>
     /\ ~Utf8Valid(file.bytes)
     /\ Utf8Valid(Slice(file.bytes, 0, sample_size))) =>
        /\ ~extracted.raised
        /\ \E i \in 1..Len(preferred) :
              LET df == read_csv(file.bytes, 0, preferred[i], "latin-1")
              IN ~df.raised /\ extracted.value = to_string(df.value)

====
